---------------------------- MODULE Spec2Model ----------------------------
(***************************************************************************)
(* Model of the beets "ydl" sub-command of beetsplug/ytdlp.py.             *)
(*                                                                         *)
(* One invocation of ytdlp_func is a sequence of steps, one per call into  *)
(* an external collaborator (metadata service, downloader, tag writer,     *)
(* importer).  The metadata service, the downloader's return code and the  *)
(* tag writer's outcome are the environment; everything else is the        *)
(* plugin's straight-line control flow.                                    *)
(*                                                                         *)
(* A track's title is folded into its trackNumber: the two only ever       *)
(* appear together, in the output file name "NN - title.ext".              *)
(***************************************************************************)
EXTENDS Integers, Sequences, FiniteSets, TLC

\* ------------------------------------------------------------------ bounds
\* Largest number of tracks of the album the metadata service describes.
MaxTracks == 2
\* Largest number of albums, and of items per album, of the initial library.
MaxAlbums == 2
MaxItems == 2
\* Number of times the command is invoked in one behaviour.
MaxRuns == 2

\* ------------------------------------------------------------- value sets
\* Names as the service or the tags report them; one contains a "/".
ArtistNames == {"a1", "a/2"}
AlbumNames == {"t1", "t/2"}

\* The arguments of --artist, --album and --url (when given).
OptArtist == "a1"
OptAlbum == "t1"
OptUrl == <<"https://music.youtube.com/playlist?", "list=", "PL1">>

\* The staging cache, config["directory"] + "/.import".
cache_dir == ".import"

\* Optional values are sequences: <<>> is None, <<x>> is the value x.
None == <<>>
Some(x) == <<x>>
\* A local variable that was declared but never assigned.
Unbound == <<"unbound">>

\* str.replace("/", "-") on the names of the model.
Sanitize(name) ==
    CASE name = "a/2" -> "a-2"
      [] name = "t/2" -> "t-2"
      [] OTHER -> name

\* ArtistMetadata.__post_init__
ArtistMetadata(name, id) == [name |-> Sanitize(name), id |-> id]

\* TrackMetadata.__post_init__ (album sanitised; title is the track number)
TrackMetadata(artists, trackNumber, videoId, album, isAvailable) ==
    [artists |-> artists, trackNumber |-> trackNumber, videoId |-> videoId,
     album |-> Sanitize(album), isAvailable |-> isAvailable]

\* AlbumMetadata: the sanitising hook is spelled __post__init__, so the
\* dataclass never runs it and the title is kept as given.
AlbumMetadata(title, artists, trackCount, audioPlaylistId, tracks) ==
    [title |-> title, artists |-> artists, trackCount |-> trackCount,
     audioPlaylistId |-> audioPlaylistId, tracks |-> tracks]

\* TrackMetadata.url
TrackUrl(track) == <<"https://youtube.com/watch?", "v=", track.videoId>>

\* source_url.split('v=')[-1]
VideoIdOf(source_url) == source_url[Len(source_url)]

\* url.split("list=")[-1]
PlaylistIdOf(url) == url[Len(url)]

\* AlbumMetadata.available_tracks
available_tracks(album) == SelectSeq(album.tracks, LAMBDA t : t.isAvailable)

\* The video identifier of the n-th track of the service's album.
VideoId(n) == <<"v", n>>

\* ------------------------------------------------------ metadata service
\* Every sequence over S of length at most n.
SeqsUpTo(S, n) == UNION {[1..m -> S] : m \in 0..n}

\* A track as the service lists it, before its position is known.
ServiceTracks == [artist : ArtistNames, isAvailable : BOOLEAN]

\* What the service holds for the album / playlist the command asks about.
ServiceAlbums ==
    [title : AlbumNames, artist : ArtistNames, trackCount : 0..MaxTracks,
     tracks : SeqsUpTo(ServiceTracks, MaxTracks)]

\* The result lists ytmusic.search can give: no hit, or one album.
SearchResults == {<<>>, <<[browseId |-> "b1"]>>}

VARIABLES
    ytSearch,       \* what ytmusic.search returns
    ytAlbum,        \* what ytmusic.get_album / get_playlist describe
    lib,            \* the beets library: a sequence of albums of items
    fs,             \* files in the staging cache: [dir, trackNumber, url]
    dirs,           \* directories that exist in the staging cache
    pc,             \* position of ytdlp_func
    run,            \* number of invocations so far
    opts,           \* the options of the current invocation
    album_details,  \* local of ytdlp_func (album mode)
    album_dir,      \* local of ytdlp_func (both modes)
    idx,            \* position of the running track loop
    albums,         \* lib.albums() as _list_missing iterates it
    k,              \* position of the loop over _list_missing
    num_albums,     \* local of ytdlp_func (missing-items mode)
    yielded,        \* the lists _list_missing has yielded in this invocation
    error,          \* the exception that ended ytdlp_func, "" if none
    calls,          \* calls made to the metadata service in this invocation
    downloads,      \* calls made to the downloader in this invocation
    imports,        \* calls made to the import command in this invocation
    staged,         \* directories written by this album's tagged downloads
    printed         \* messages printed by this invocation

vars == <<ytSearch, ytAlbum, lib, fs, dirs, pc, run, opts, album_details,
          album_dir, idx, albums, k, num_albums, yielded, error, calls,
          downloads, imports, staged, printed>>

service == <<ytSearch, ytAlbum>>
missingLocals == <<albums, k, num_albums, yielded>>

\* ytmusic.get_album(browse_id): the album with its tracks numbered.
get_album(browse_id) ==
    [title |-> ytAlbum.title,
     artists |-> <<[name |-> ytAlbum.artist, id |-> "x"]>>,
     trackCount |-> ytAlbum.trackCount,
     audioPlaylistId |-> "OLAK",
     tracks |-> [n \in 1..Len(ytAlbum.tracks) |->
                   [artists |-> <<[name |-> ytAlbum.tracks[n].artist, id |-> "x"]>>,
                    trackNumber |-> n,
                    videoId |-> VideoId(n),
                    album |-> ytAlbum.title,
                    isAvailable |-> ytAlbum.tracks[n].isAvailable]]]

\* ytmusic.get_playlist(playlist_id): the same listing, as a playlist: the
\* entries carry no position, and the playlist is known by its own id.
get_playlist(playlist_id) ==
    [title |-> ytAlbum.title,
     artists |-> <<[name |-> ytAlbum.artist, id |-> "x"]>>,
     trackCount |-> ytAlbum.trackCount,
     audioPlaylistId |-> "unset",
     tracks |-> [n \in 1..Len(ytAlbum.tracks) |->
                   [artists |-> <<[name |-> ytAlbum.tracks[n].artist, id |-> "x"]>>,
                    trackNumber |-> 0,
                    videoId |-> VideoId(n),
                    album |-> ytAlbum.title,
                    isAvailable |-> ytAlbum.tracks[n].isAvailable]]]

\* dacite.from_dict(AlbumMetadata, info)
from_dict(info) ==
    AlbumMetadata(
        info.title,
        [a \in 1..Len(info.artists) |-> ArtistMetadata(info.artists[a].name, info.artists[a].id)],
        info.trackCount,
        info.audioPlaylistId,
        [n \in 1..Len(info.tracks) |->
            TrackMetadata(
                [a \in 1..Len(info.tracks[n].artists) |->
                    ArtistMetadata(info.tracks[n].artists[a].name,
                                   info.tracks[n].artists[a].id)],
                info.tracks[n].trackNumber,
                info.tracks[n].videoId,
                info.tracks[n].album,
                info.tracks[n].isAvailable)])

\* ------------------------------------------------ _fetch_album_metadata
\* The --url branch: the playlist's listing with the caller's details added.
PlaylistInfo(artist, album, url) ==
    LET playlist_id == PlaylistIdOf(url)
        playlist_info == get_playlist(playlist_id)
    IN  [title |-> playlist_info.title,
         artists |-> <<[name |-> artist, id |-> ""]>>,
         trackCount |-> playlist_info.trackCount,
         audioPlaylistId |-> playlist_id,
         album |-> album,
         tracks |-> [n \in 1..Len(playlist_info.tracks) |->
                       [playlist_info.tracks[n] EXCEPT
                           !.trackNumber = n, !.album = album]]]

\* A variant that takes an empty result list for a hit.
NoSearchResultsInverted(search_results) == search_results # <<>>

\* The search branch stops when the search comes back empty.
NoSearchResults(search_results) == search_results = <<>>

\* The availability gate: fewer available tracks than the album announces.
NotAllAvailable(album_metadata) ==
    Len(available_tracks(album_metadata)) < album_metadata.trackCount

\* _fetch_album_metadata(artist, album, url): what it returns, the service
\* calls it makes and the messages it prints.
_fetch_album_metadata(artist, album, url) ==
    IF url # None
    THEN LET album_metadata == from_dict(PlaylistInfo(artist, album, url[1]))
             called == <<"get_album_browse_id", "get_playlist">>
         IN  IF NotAllAvailable(album_metadata)
             THEN [ret |-> None, calls |-> called,
                   printed |-> <<"not_all_available">>]
             ELSE [ret |-> Some(album_metadata), calls |-> called,
                   printed |-> <<>>]
    ELSE IF NoSearchResults(ytSearch)
    THEN [ret |-> None, calls |-> <<"search">>, printed |-> <<"no_results">>]
    ELSE LET album_metadata == from_dict(get_album(ytSearch[1].browseId))
             called == <<"search", "get_album">>
         IN  IF NotAllAvailable(album_metadata)
             THEN [ret |-> None, calls |-> called,
                   printed |-> <<"not_all_available">>]
             ELSE [ret |-> Some(album_metadata), calls |-> called,
                   printed |-> <<>>]

\* ---------------------------------------------- _download_track_to_cache
\* What the downloader and the tag writer can do with one track.
Outcomes == {"ok", "download_error", "tag_error"}

\* outdir = cache_dir / track.artists[0].name / track.album
Outdir(track) == <<cache_dir, track.artists[1].name, track.album>>

\* The staging cache once the file of a track is written with a url tag
\* (<<>>: the downloader's file, not yet tagged).
WriteFile(files, track, url) ==
    {f \in files : ~(f.dir = Outdir(track) /\ f.trackNumber = track.trackNumber)}
        \cup {[dir |-> Outdir(track), trackNumber |-> track.trackNumber,
               url |-> url]}

\* The value _download_track_to_cache returns.
DownloadReturn(track, outcome) ==
    IF outcome = "ok" THEN Outdir(track) ELSE None

\* The effect of _download_track_to_cache on everything but the caller's
\* locals.
DownloadEffect(track, outcome) ==
    /\ downloads' = Append(downloads, [track |-> track, outcome |-> outcome])
    /\ fs' = CASE outcome = "ok" -> WriteFile(fs, track, TrackUrl(track))
               [] outcome = "tag_error" -> WriteFile(fs, track, <<>>)
               [] OTHER -> fs
    /\ dirs' = IF outcome = "download_error" THEN dirs
               ELSE dirs \cup {Outdir(track)}
    /\ staged' = IF outcome = "ok" THEN staged \cup {Outdir(track)} ELSE staged
    /\ printed' = CASE outcome = "ok" -> printed
                    [] outcome = "tag_error" -> Append(printed, "error_metadata")
                    [] OTHER -> Append(printed, "error_downloading")

\* ------------------------------------------------------- _import_album
\* The files the importer finds under a directory, in track order.
FilesIn(dir) == {f \in fs : f.dir = dir}

RECURSIVE SortFiles(_)
SortFiles(files) ==
    IF files = {} THEN <<>>
    ELSE LET first == CHOOSE f \in files :
                        \A g \in files : f.trackNumber <= g.trackNumber
         IN  <<first>> \o SortFiles(files \ {first})

\* The library item of an imported file; _on_item_moved copies the file's
\* url tag into source_url.
ItemOf(f) ==
    [artist |-> f.dir[2], album |-> f.dir[3], track |-> f.trackNumber,
     source_url |-> f.url, exists |-> TRUE]

\* _import_album(lib, album_dir): "beet import -m <album_dir>" moves the
\* files of the directory into the library as one album.
ImportEffect(dir) ==
    LET found == SortFiles(FilesIn(dir))
    IN  /\ imports' = Append(imports, [dir |-> dir, staged |-> staged])
        /\ fs' = fs \ FilesIn(dir)
        /\ lib' = IF found = <<>> THEN lib
                  ELSE Append(lib, [n \in 1..Len(found) |-> ItemOf(found[n])])

\* ------------------------------------------------------- _list_missing
\* item.get("source_url") is truthy
HasSourceUrl(item) == item.source_url # <<>>

\* The filter of the scan: the file is gone and a source url is stored.
IsMissing(item) == ~item.exists /\ HasSourceUrl(item)

\* The TrackMetadata the scan builds for a missing item.
MissingTrack(item) ==
    TrackMetadata(<<ArtistMetadata(item.artist, "")>>, item.track,
                  VideoIdOf(item.source_url), item.album, TRUE)

\* What _list_missing yields for one album: a list, empty or not.
MissingTracks(album) ==
    LET missing == SelectSeq(album, IsMissing)
    IN  [n \in 1..Len(missing) |-> MissingTrack(missing[n])]

\* ------------------------------------------------------------ ytdlp_func
\* optparse values: --artist, --album and --url are given or absent.
AllOpts ==
    [artist : {None, Some(OptArtist)}, album : {None, Some(OptAlbum)},
     url : {None, Some(OptUrl)}, fetch_missing : BOOLEAN]

AlbumMode(o) == o.artist # None /\ o.album # None

\* Invocations that take the album branch or the invalid-arguments branch.
AlbumOpts == {o \in AllOpts : AlbumMode(o) \/ ~o.fetch_missing}
\* Invocations that take the missing-items branch or the invalid one.
MissingOpts == {o \in AllOpts : ~AlbumMode(o)}

Finished == pc \in {"idle", "returned", "raised"}

\* The tracks the running track loop iterates.
LoopTracks ==
    IF AlbumMode(opts) THEN available_tracks(album_details[1])
    ELSE MissingTracks(albums[k])

\* The command is run: ytdlp_func starts with fresh locals.
Invoke(o) ==
    /\ Finished
    /\ run < MaxRuns
    /\ run' = run + 1
    /\ opts' = o
    /\ pc' = IF AlbumMode(o) THEN "fetch"
             ELSE IF o.fetch_missing THEN "list_missing" ELSE "invalid"
    /\ album_details' = None
    /\ album_dir' = Unbound
    /\ idx' = 0
    /\ albums' = <<>>
    /\ k' = 0
    /\ num_albums' = 0
    /\ yielded' = <<>>
    /\ error' = ""
    /\ calls' = <<>>
    /\ downloads' = <<>>
    /\ imports' = <<>>
    /\ staged' = {}
    /\ printed' = <<>>
    /\ UNCHANGED <<service, lib, fs, dirs>>

\* album_details = self._fetch_album_metadata(...); if not: return
FetchAlbumMetadata ==
    /\ pc = "fetch"
    /\ LET r == _fetch_album_metadata(opts.artist[1], opts.album[1], opts.url)
       IN  /\ album_details' = r.ret
           /\ calls' = calls \o r.calls
           /\ printed' = printed \o r.printed
           /\ pc' = IF r.ret = None THEN "returned" ELSE "download"
    /\ idx' = 1
    /\ UNCHANGED <<service, lib, fs, dirs, run, opts, album_dir, missingLocals,
                   error, downloads, imports, staged>>

\* A variant that goes on to the next track whatever the last one did.
AlbumLoopNextNoStop(out) == "download"

\* After a track of the album loop: return on a failure, else go on.
AlbumLoopNext(out) == IF out = None THEN "returned" ELSE "download"

\* One iteration of the album loop.
AlbumDownloadTrack ==
    /\ pc = "download"
    /\ idx <= Len(LoopTracks)
    /\ \E outcome \in Outcomes :
        LET track == LoopTracks[idx]
            out == DownloadReturn(track, outcome)
        IN  /\ DownloadEffect(track, outcome)
            /\ album_dir' = out
            /\ pc' = AlbumLoopNext(out)
    /\ idx' = idx + 1
    /\ UNCHANGED <<service, lib, run, opts, album_details, missingLocals,
                   error, calls, imports>>

\* The album loop is over: import album_dir and report success.
AlbumImport ==
    /\ pc = "download"
    /\ idx > Len(LoopTracks)
    /\ IF album_dir = Unbound
       THEN /\ pc' = "raised"
            /\ error' = "UnboundLocalError"
            /\ UNCHANGED <<lib, fs, imports, printed>>
       ELSE /\ ImportEffect(album_dir)
            /\ printed' = Append(printed, "success_album")
            /\ pc' = "returned"
            /\ error' = error
    /\ UNCHANGED <<service, dirs, run, opts, album_details, album_dir, idx,
                   missingLocals, calls, downloads, staged>>

\* for missing_album_tracks in self._list_missing(lib): the scan starts.
ListMissing ==
    /\ pc = "list_missing"
    /\ albums' = lib
    /\ k' = 1
    /\ pc' = "next_album"
    /\ UNCHANGED <<service, lib, fs, dirs, run, opts, album_details, album_dir,
                   idx, num_albums, yielded, error, calls, downloads, imports,
                   staged, printed>>

\* The scan yields the next album's list, or ends.
MissingNextAlbum ==
    /\ pc = "next_album"
    /\ IF k > Len(albums)
       THEN /\ printed' = Append(printed, "success_missing")
            /\ pc' = "returned"
            /\ error' = error
            /\ yielded' = yielded
       ELSE /\ yielded' = Append(yielded, MissingTracks(albums[k]))
            /\ IF MissingTracks(albums[k]) = <<>>
               THEN /\ pc' = "raised"
                    /\ error' = "IndexError"
                    /\ printed' = printed
               ELSE /\ printed' = Append(printed, "fetching")
                    /\ pc' = "missing_download"
                    /\ error' = error
    /\ idx' = 1
    /\ staged' = {}
    /\ UNCHANGED <<service, lib, fs, dirs, run, opts, album_details, album_dir,
                   albums, k, num_albums, calls, downloads, imports>>

\* album_dir = out if out else album_dir
KeepOrReplace(out, dir) == IF out # None THEN out ELSE dir

\* One iteration of the track loop of the missing-items mode.
MissingDownloadTrack ==
    /\ pc = "missing_download"
    /\ idx <= Len(LoopTracks)
    /\ \E outcome \in Outcomes :
        LET track == LoopTracks[idx]
            out == DownloadReturn(track, outcome)
        IN  /\ DownloadEffect(track, outcome)
            /\ IF out = None /\ album_dir = Unbound
               THEN /\ pc' = "raised"
                    /\ error' = "UnboundLocalError"
                    /\ album_dir' = album_dir
               ELSE /\ pc' = pc
                    /\ error' = error
                    /\ album_dir' = KeepOrReplace(out, album_dir)
    /\ idx' = idx + 1
    /\ UNCHANGED <<service, lib, run, opts, album_details, missingLocals,
                   calls, imports>>

\* if album_dir: self._import_album(lib, album_dir); num_albums += 1
MissingImport ==
    /\ pc = "missing_download"
    /\ idx > Len(LoopTracks)
    /\ IF album_dir # None
       THEN ImportEffect(album_dir)
       ELSE UNCHANGED <<lib, fs, imports>>
    /\ num_albums' = num_albums + 1
    /\ k' = k + 1
    /\ pc' = "next_album"
    /\ UNCHANGED <<service, dirs, run, opts, album_details, album_dir, idx,
                   albums, yielded, error, calls, downloads, staged, printed>>

\* Neither --artist and --album nor --fetch-missing: a message, and return.
InvalidArguments ==
    /\ pc = "invalid"
    /\ printed' = Append(printed, "invalid_arguments")
    /\ pc' = "returned"
    /\ UNCHANGED <<service, lib, fs, dirs, run, opts, album_details, album_dir,
                   idx, missingLocals, error, calls, downloads, imports,
                   staged>>

\* -------------------------------------------------------- initial states
\* An item of an initial library: with or without its file on disk, with
\* or without a stored source url.
ItemShapes == [exists : BOOLEAN, tagged : BOOLEAN]

\* The n-th item of the album at position albumNo of an initial library.
LibraryItem(albumNo, n, shape) ==
    [artist |-> IF albumNo % 2 = 1 THEN "a1" ELSE "a/2",
     album |-> "t1",
     track |-> n,
     source_url |-> IF shape.tagged
                    THEN <<"https://youtube.com/watch?", "v=", VideoId(n)>>
                    ELSE <<>>,
     exists |-> shape.exists]

\* The initial libraries of at most maxAlbums albums of one to maxItems
\* items each.
Libraries(maxAlbums, maxItems) ==
    UNION {{[a \in 1..m |->
               [n \in 1..Len(shapes[a]) |-> LibraryItem(a, n, shapes[a][n])]] :
              shapes \in [1..m -> SeqsUpTo(ItemShapes, maxItems) \ {<<>>}]} :
           m \in 0..maxAlbums}

InitLocals ==
    /\ fs = {}
    /\ dirs = {}
    /\ pc = "idle"
    /\ run = 0
    /\ opts = [artist |-> None, album |-> None, url |-> None,
               fetch_missing |-> FALSE]
    /\ album_details = None
    /\ album_dir = Unbound
    /\ idx = 0
    /\ albums = <<>>
    /\ k = 0
    /\ num_albums = 0
    /\ yielded = <<>>
    /\ error = ""
    /\ calls = <<>>
    /\ downloads = <<>>
    /\ imports = <<>>
    /\ staged = {}
    /\ printed = <<>>

\* Album mode: a fresh library, any state of the metadata service.
InitAlbum ==
    /\ ytSearch \in SearchResults
    /\ ytAlbum \in ServiceAlbums
    /\ lib = <<>>
    /\ InitLocals

\* Missing-items mode: any library; the metadata service is not consulted.
InitMissing ==
    /\ ytSearch = <<>>
    /\ ytAlbum = [title |-> "t1", artist |-> "a1", trackCount |-> 0,
                  tracks |-> <<>>]
    /\ lib \in Libraries(MaxAlbums, MaxItems)
    /\ InitLocals

NextAlbum ==
    \/ \E o \in AlbumOpts : Invoke(o)
    \/ FetchAlbumMetadata
    \/ AlbumDownloadTrack
    \/ AlbumImport
    \/ InvalidArguments

NextMissing ==
    \/ \E o \in MissingOpts : Invoke(o)
    \/ ListMissing
    \/ MissingNextAlbum
    \/ MissingDownloadTrack
    \/ MissingImport
    \/ InvalidArguments

SpecAlbum == InitAlbum /\ [][NextAlbum]_vars

SpecMissing == InitMissing /\ [][NextMissing]_vars

\* ----------------------------------------------------------- properties
SeqToSet(seq) == {seq[n] : n \in 1..Len(seq)}

AllOk == \A n \in 1..Len(downloads) : downloads[n].outcome = "ok"

\* The source urls stored in the library.
SourceUrls ==
    UNION {{lib[a][n].source_url : n \in 1..Len(lib[a])} : a \in 1..Len(lib)}

RECURSIVE Flatten(_)
Flatten(lists) ==
    IF lists = <<>> THEN <<>> ELSE Head(lists) \o Flatten(Tail(lists))

\* C1: in album mode, a descriptor with at least one unavailable track is
\* rejected whatever its trackCount: _fetch_album_metadata returns None and
\* the command makes no download call and no import call.
C1Claim ==
    (/\ AlbumMode(opts)
     /\ pc # "fetch"
     /\ \E n \in 1..Len(ytAlbum.tracks) : ~ytAlbum.tracks[n].isAvailable)
        => /\ album_details = None
           /\ downloads = <<>>
           /\ imports = <<>>

\* C2: after a run in which every download succeeded and the import step
\* returned, the staging directory that was imported no longer exists (the
\* plugin reads no keep-files flag, so the exception never applies).
C2Claim ==
    (pc = "returned" /\ imports # <<>> /\ AllOk)
        => \A n \in 1..Len(imports) : imports[n].dir \notin dirs

\* C3: the scan yields exactly the items without a file and with a source
\* url, each once, and yields nothing for an album without such an item.
C3Claim ==
    ~AlbumMode(opts) =>
        /\ \A n \in 1..Len(yielded) : yielded[n] # <<>>
        /\ \A n \in 1..Len(yielded) :
              yielded[n] = MissingTracks(albums[n])
        /\ "success_missing" \in SeqToSet(printed) =>
              Len(Flatten(yielded)) =
                  Len(Flatten([a \in 1..Len(albums) |->
                                 SelectSeq(albums[a], IsMissing)]))

\* C4: in album mode no download call is made for a track whose source url
\* the library already holds (the command takes no forced-redownload flag).
C4Claim ==
    (AlbumMode(opts) /\ pc = "download")
        => \A n \in 1..Len(downloads) :
              TrackUrl(downloads[n].track) \notin SourceUrls

\* C5: with --url no search is made and the descriptor's title, artists,
\* playlist identifier and track album names are the caller's arguments.
C5Claim ==
    (AlbumMode(opts) /\ opts.url # None /\ album_details # None)
        => /\ "search" \notin SeqToSet(calls)
           /\ album_details[1].title = opts.album[1]
           /\ album_details[1].artists = <<[name |-> opts.artist[1], id |-> ""]>>
           /\ album_details[1].audioPlaylistId = PlaylistIdOf(opts.url[1])
           /\ \A n \in 1..Len(album_details[1].tracks) :
                 album_details[1].tracks[n].album = opts.album[1]

\* C6: in album mode without --url, an empty search result makes
\* _fetch_album_metadata return None without fetching an album, and the
\* command returns with no download call and no import call.
C6Theorem ==
    (AlbumMode(opts) /\ opts.url = None /\ ytSearch = <<>> /\ pc # "fetch")
        => /\ album_details = None
           /\ calls = <<"search">>
           /\ downloads = <<>>
           /\ imports = <<>>
           /\ pc = "returned"

C6Witness ==
    /\ AlbumMode(opts) /\ opts.url = None /\ ytSearch = <<>>
    /\ pc = "returned"
    /\ printed = <<"no_results">>

\* C7: the command always returns normally; it never ends in an unhandled
\* error.
C7Claim == pc # "raised"

\* C8: in album mode the tracks are downloaded one at a time in track-list
\* order; the import step is invoked at most once and only after every
\* available track was downloaded and tagged; after the first failing track
\* no further track is downloaded, nothing is imported and no success
\* message is printed.
C8Theorem ==
    (AlbumMode(opts) /\ album_details # None) =>
        LET avail == available_tracks(album_details[1])
        IN  /\ Len(downloads) <= Len(avail)
            /\ \A n \in 1..Len(downloads) : downloads[n].track = avail[n]
            /\ Len(imports) <= 1
            /\ imports # <<>> => (Len(downloads) = Len(avail) /\ AllOk)
            /\ \A n \in 1..Len(downloads) :
                  downloads[n].outcome # "ok" =>
                      /\ n = Len(downloads)
                      /\ imports = <<>>
                      /\ "success_album" \notin SeqToSet(printed)
                      /\ pc = "returned"

\* An earlier run imported an album; this run stopped at its second track.
C8Witness ==
    /\ AlbumMode(opts) /\ album_details # None
    /\ lib # <<>>
    /\ Len(available_tracks(album_details[1])) >= 2
    /\ Len(downloads) = 2
    /\ downloads[1].outcome = "ok"
    /\ downloads[2].outcome = "tag_error"
    /\ pc = "returned"

\* C9: in missing-items mode the import step only ever gets a directory
\* into which a track of the album at hand was downloaded successfully
\* during that album's iteration.
C9Claim ==
    ~AlbumMode(opts) =>
        \A n \in 1..Len(imports) : imports[n].dir \in imports[n].staged

\* C10: in album mode the directory passed to the import step is the
\* staging directory of every track downloaded in the run.
C10Claim ==
    AlbumMode(opts) =>
        \A n \in 1..Len(imports) : imports[n].staged = {imports[n].dir}

=============================================================================
